---- MODULE Spec2Model ----
(***************************************************************************)
(* Room/session core of the quiz service (src/main.py): the in-memory     *)
(* registries `rooms` and `users`, the persisted snapshot, the room-code   *)
(* allocator, the question provider call of create-room and the handlers   *)
(* create-room, join-room, start-quiz, room-status, update-score,          *)
(* submit-answer and leaderboard.                                          *)
(*                                                                         *)
(* Strings the code computes on (room codes, display names, answers) are   *)
(* sequences of one-character strings; strings it only stores or compares  *)
(* whole (room names, topics, texts) are TLA+ strings.  uuid4() is a fresh *)
(* value drawn from a counter; time.time() stamps are not modelled (no     *)
(* handler reads them).                                                    *)
(***************************************************************************)
EXTENDS Integers, Sequences, FiniteSets, TLC

(***************************************************************************)
(* Bounds of the model.                                                    *)
(***************************************************************************)
\* requests received over the whole run
MaxRequests == 5
\* create-room requests among them
MaxCreates == 2
\* update-score requests that change a score, among them
MaxUpdates == 1

(***************************************************************************)
(* Characters and strings.                                                 *)
(***************************************************************************)
ascii_uppercase ==
    {"A", "B", "C", "D", "E", "F", "G", "H", "I", "J", "K", "L", "M",
     "N", "O", "P", "Q", "R", "S", "T", "U", "V", "W", "X", "Y", "Z"}

digits == {"0", "1", "2", "3", "4", "5", "6", "7", "8", "9"}

\* str.lower() on one character
lower_char(c) ==
    CASE c = "A" -> "a" [] c = "B" -> "b" [] c = "C" -> "c" [] c = "D" -> "d"
      [] c = "E" -> "e" [] c = "F" -> "f" [] c = "G" -> "g" [] c = "H" -> "h"
      [] c = "I" -> "i" [] c = "J" -> "j" [] c = "K" -> "k" [] c = "L" -> "l"
      [] c = "M" -> "m" [] c = "N" -> "n" [] c = "O" -> "o" [] c = "P" -> "p"
      [] c = "Q" -> "q" [] c = "R" -> "r" [] c = "S" -> "s" [] c = "T" -> "t"
      [] c = "U" -> "u" [] c = "V" -> "v" [] c = "W" -> "w" [] c = "X" -> "x"
      [] c = "Y" -> "y" [] c = "Z" -> "z" [] OTHER -> c

\* str.lower()
lower(s) == [i \in 1..Len(s) |-> lower_char(s[i])]

\* The elements of a sequence.
Range(s) == {s[i] : i \in 1..Len(s)}

\* All orderings of a finite set as sequences (list(a_set): the order is the
\* set's iteration order, which the program does not control).
Orderings(S) ==
    {s \in [1..Cardinality(S) -> S] : \A i, j \in 1..Cardinality(S) : i # j => s[i] # s[j]}

(***************************************************************************)
(* Python dicts whose iteration order is observed (room["scores"]): a      *)
(* sequence of <<key, value>> pairs in insertion order.                    *)
(***************************************************************************)
dict_keys(d) == {d[i][1] : i \in 1..Len(d)}

dict_index(d, k) == CHOOSE i \in 1..Len(d) : d[i][1] = k

\* d.get(k, default)
dict_get(d, k, default) ==
    IF k \in dict_keys(d) THEN d[dict_index(d, k)][2] ELSE default

\* d[k] = v: an existing key keeps its place, a new key goes last
dict_set(d, k, v) ==
    IF k \in dict_keys(d)
    THEN [d EXCEPT ![dict_index(d, k)] = <<k, v>>]
    ELSE Append(d, <<k, v>>)

\* f[k] = v on a mapping kept as a function
map_set(f, k, v) == [x \in DOMAIN f \cup {k} |-> IF x = k THEN v ELSE f[x]]

(***************************************************************************)
(* sorted(room["scores"].items(), key=lambda x: x[1], reverse=True):       *)
(* a stable sort, descending by score.                                     *)
(***************************************************************************)
\* an insertion that puts an item before the items of the same score
insert_desc_before_ties(sorted, item) ==
    LET before == {i \in 1..Len(sorted) : sorted[i][2] > item[2]}
    IN SubSeq(sorted, 1, Cardinality(before)) \o <<item>>
           \o SubSeq(sorted, Cardinality(before) + 1, Len(sorted))

\* the items as the mapping enumerates them, not sorted
leaderboard_unsorted(scores) == scores

RECURSIVE insert_desc(_, _)
insert_desc(sorted, item) ==
    IF sorted = <<>> THEN <<item>>
    ELSE IF Head(sorted)[2] >= item[2]
         THEN <<Head(sorted)>> \o insert_desc(Tail(sorted), item)
         ELSE <<item>> \o sorted

RECURSIVE leaderboard(_)
leaderboard(scores) ==
    IF scores = <<>> THEN <<>>
    ELSE insert_desc(leaderboard(SubSeq(scores, 1, Len(scores) - 1)), scores[Len(scores)])

(***************************************************************************)
(* Room code allocator.                                                    *)
(***************************************************************************)
\* the alphabet of generate_room_code
characters == (ascii_uppercase \cup digits) \ {"O", "0", "I", "1"}

\* The outcomes of the k-th random.choice of one code that the model explores
\* (a sample of the generator's outcomes; what it offers outside the alphabet
\* is never drawn).
SampleDraws ==
    <<{"A", "B", "O"}, {"A", "0"}, {"A", "I"}, {"A", "1"}, {"A"}>>

\* The codes generate_room_code(length) can return.
RECURSIVE generate_room_code(_)
generate_room_code(length) ==
    IF length = 0 THEN {<<>>}
    ELSE {Append(prefix, c) : prefix \in generate_room_code(length - 1),
                              c \in characters \cap SampleDraws[length]}

\* The codes the loop `while room_code in rooms` of create_room can end with.
allocate_room_code(room_codes) == generate_room_code(5) \ room_codes

\* f"Admin-{room_code[:3]}"
admin_username_of(room_code) ==
    <<"A", "d", "m", "i", "n", "-">> \o SubSeq(room_code, 1, IF Len(room_code) < 3 THEN Len(room_code) ELSE 3)

(***************************************************************************)
(* Question provider: generate_questions.                                  *)
(***************************************************************************)
pad_question ==
    [text |-> "Which company saw the largest stock price increase in the last 24 hours?",
     options |-> <<<<"A", "p", "p", "l", "e", " ", "(", "A", "A", "P", "L", ")">>,
                   <<"M", "i", "c", "r", "o", "s", "o", "f", "t", " ", "(", "M", "S", "F", "T", ")">>,
                   <<"T", "e", "s", "l", "a", " ", "(", "T", "S", "L", "A", ")">>,
                   <<"A", "m", "a", "z", "o", "n", " ", "(", "A", "M", "Z", "N", ")">>>>,
     correct_answer |-> <<"T", "e", "s", "l", "a", " ", "(", "T", "S", "L", "A", ")">>,
     difficulty |-> "medium",
     category |-> "stock market",
     explanation |-> "Tesla's stock surged due to positive EV market news."]

fallback_1 ==
    [text |-> "Which company's stock surged after a major product announcement?",
     options |-> <<<<"A", "p", "p", "l", "e", " ", "(", "A", "A", "P", "L", ")">>,
                   <<"M", "i", "c", "r", "o", "s", "o", "f", "t", " ", "(", "M", "S", "F", "T", ")">>,
                   <<"T", "e", "s", "l", "a", " ", "(", "T", "S", "L", "A", ")">>,
                   <<"A", "m", "a", "z", "o", "n", " ", "(", "A", "M", "Z", "N", ")">>>>,
     correct_answer |-> <<"A", "p", "p", "l", "e", " ", "(", "A", "A", "P", "L", ")">>,
     difficulty |-> "medium",
     category |-> "stock market",
     explanation |-> "Apple announced a new product line, boosting its stock."]

fallback_2 ==
    [text |-> "Which stock fell due to a recent earnings miss?",
     options |-> <<<<"G", "o", "o", "g", "l", "e", " ", "(", "G", "O", "O", "G", "L", ")">>,
                   <<"F", "a", "c", "e", "b", "o", "o", "k", " ", "(", "M", "E", "T", "A", ")">>,
                   <<"N", "e", "t", "f", "l", "i", "x", " ", "(", "N", "F", "L", "X", ")">>,
                   <<"I", "n", "t", "e", "l", " ", "(", "I", "N", "T", "C", ")">>>>,
     correct_answer |-> <<"N", "e", "t", "f", "l", "i", "x", " ", "(", "N", "F", "L", "X", ")">>,
     difficulty |-> "medium",
     category |-> "stock market",
     explanation |-> "Netflix reported lower-than-expected subscriber growth."]

fallback_3 ==
    [text |-> "What's the typical price-to-earnings (P/E) ratio for a growth stock?",
     options |-> <<<<"5", "-", "1", "0">>,
                   <<"1", "5", "-", "2", "5">>,
                   <<"3", "0", "-", "5", "0">>,
                   <<"O", "v", "e", "r", " ", "1", "0", "0">>>>,
     correct_answer |-> <<"3", "0", "-", "5", "0">>,
     difficulty |-> "medium",
     category |-> "stock market",
     explanation |-> "Growth stocks typically have higher P/E ratios due to expected future earnings."]

fallback_4 ==
    [text |-> "Which financial metric is most important when evaluating dividend stocks?",
     options |-> <<<<"D", "i", "v", "i", "d", "e", "n", "d", " ", "Y", "i", "e", "l", "d">>,
                   <<"P", "r", "i", "c", "e", "-", "t", "o", "-", "B", "o", "o", "k", " ", "R", "a", "t", "i", "o">>,
                   <<"B", "e", "t", "a">>,
                   <<"R", "e", "t", "u", "r", "n", " ", "o", "n", " ", "E", "q", "u", "i", "t", "y">>>>,
     correct_answer |-> <<"D", "i", "v", "i", "d", "e", "n", "d", " ", "Y", "i", "e", "l", "d">>,
     difficulty |-> "easy",
     category |-> "stock market",
     explanation |-> "Dividend yield indicates how much a company pays out in dividends relative to its share price."]

fallback_5 ==
    [text |-> "What typically happens to bond prices when interest rates rise?",
     options |-> <<<<"T", "h", "e", "y", " ", "r", "i", "s", "e">>,
                   <<"T", "h", "e", "y", " ", "f", "a", "l", "l">>,
                   <<"T", "h", "e", "y", " ", "r", "e", "m", "a", "i", "n", " ", "u", "n", "c", "h", "a", "n", "g", "e", "d">>,
                   <<"T", "h", "e", "y", " ", "b", "e", "c", "o", "m", "e", " ", "m", "o", "r", "e", " ", "v", "o", "l", "a", "t", "i", "l", "e">>>>,
     correct_answer |-> <<"T", "h", "e", "y", " ", "f", "a", "l", "l">>,
     difficulty |-> "medium",
     category |-> "stock market",
     explanation |-> "Bond prices have an inverse relationship with interest rates."]

fallback_questions == <<fallback_1, fallback_2, fallback_3, fallback_4, fallback_5>>

\* a_list[:count] for an integer count
slice_to(s, count) ==
    IF count >= 0
    THEN SubSeq(s, 1, IF count < Len(s) THEN count ELSE Len(s))
    ELSE SubSeq(s, 1, IF Len(s) + count > 0 THEN Len(s) + count ELSE 0)

\* The keys a question of the provider must have.
required_keys == {"text", "options", "correct_answer", "difficulty", "explanation"}

\* The two checks of the validation loop: a question failing one is skipped.
question_is_valid(q) ==
    /\ required_keys \subseteq DOMAIN q
    /\ Cardinality(Range(q.options)) = Len(q.options)
    /\ q.correct_answer \in Range(q.options)

RECURSIVE select_valid(_)
select_valid(questions) ==
    IF questions = <<>> THEN <<>>
    ELSE IF question_is_valid(Head(questions))
         THEN <<Head(questions)>> \o select_valid(Tail(questions))
         ELSE select_valid(Tail(questions))

\* The stored question record built from q, with a fresh id.
stored_question(q, id) ==
    [id |-> id, text |-> q.text, options |-> q.options,
     correct_answer |-> q.correct_answer, difficulty |-> q.difficulty,
     category |-> "stock market", explanation |-> q.explanation]

\* ids next + 1, next + 2, ... in order
with_ids(questions, next) ==
    [i \in 1..Len(questions) |-> stored_question(questions[i], next + i)]

\* validated questions, padded with pad_question up to count
pad_to(questions, count) ==
    questions \o [i \in 1..(IF count > Len(questions) THEN count - Len(questions) ELSE 0) |-> pad_question]

\* The success path: the provider's questions validated, padded and cut to count.
\* Every validated or padded question draws a uuid, the cut ones too.
questions_from_response(raw_questions, count, next) ==
    LET all == pad_to(select_valid(raw_questions), count) IN
    [raised |-> FALSE, questions |-> slice_to(with_ids(all, next), count),
     uuid |-> next + Len(all)]

\* The `except Exception` path: the fixed fallback list, cut to count.
questions_from_fallback(count, next) ==
    [raised |-> FALSE, questions |-> slice_to(with_ids(fallback_questions, next), count),
     uuid |-> next + Len(fallback_questions)]

\* An outcome of one client.post is "ok" (a 2xx response, with its body),
\* "http_error" (raise_for_status raises), "timeout" (ReadTimeout, ConnectTimeout)
\* or "error" (any other exception of the client).  The body of a response is text
\* that is no JSON ("not_json"), JSON with no "choices" ("no_choices"), a message
\* content that is no JSON object with usable questions ("bad_content"), or a
\* "content" with its questions.  The label of an outcome names what happened:
\* "content" when questions were read, else the failure.
outcome_label(outcome) == IF outcome.kind = "ok" THEN outcome.body.kind ELSE outcome.kind

\* `if not api_key: raise ValueError`
api_key_missing(api_key) == api_key = ""

\* a retry after an HTTP error status as well
retried_with_http_error == {"timeout", "http_error"}

\* The outcomes of the first post after which the post is made again
\* (`except (httpx.ReadTimeout, httpx.ConnectTimeout)`).
retried_outcomes == {"timeout"}

\* an `except` that lets the HTTP status error through (the inner `raise` of
\* generate_questions with no outer handler)
caught_without_http_error ==
    {"no_api_key", "timeout", "error", "not_json", "no_choices", "bad_content"}

\* The failures the `except Exception` of generate_questions catches: every one.
caught_failures ==
    {"no_api_key", "http_error", "timeout", "error", "not_json", "no_choices", "bad_content"}

\* generate_questions from the outcome of its last post on (or from the missing
\* api key): the questions it returns, or the exception it lets through.
questions_after(label, raw_questions, count, next) ==
    IF label = "content"
    THEN questions_from_response(raw_questions, count, next)
    ELSE IF label \in caught_failures
    THEN questions_from_fallback(count, next)
    ELSE [raised |-> TRUE, questions |-> <<>>, uuid |-> next]

(***************************************************************************)
(* Requests and responses.                                                 *)
(***************************************************************************)
\* raise HTTPException(status_code, detail): nothing is changed or saved
HTTPException(rooms_, users_, uuid_, status_code, detail) ==
    [rooms |-> rooms_, users |-> users_, uuid |-> uuid_, saved |-> FALSE,
     status |-> status_code, detail |-> detail, body |-> [detail |-> detail]]

\* a returned body, with the registries as the handler leaves them
Returned(rooms_, users_, uuid_, saved, message, body) ==
    [rooms |-> rooms_, users |-> users_, uuid |-> uuid_, saved |-> saved,
     status |-> 200, detail |-> message, body |-> body]

\* An exception no handler catches (a KeyError): the server answers 500; what the
\* handler did before it stays done.
Unhandled(rooms_, users_, uuid_, saved) ==
    [rooms |-> rooms_, users |-> users_, uuid |-> uuid_, saved |-> saved,
     status |-> 500, detail |-> "Internal Server Error",
     body |-> [detail |-> "Internal Server Error"]]

\* list(answered_set) for every player of one room
listed(answered) ==
    {f \in [DOMAIN answered -> UNION {Orderings(answered[n]) : n \in DOMAIN answered}] :
        \A n \in DOMAIN answered : f[n] \in Orderings(answered[n])}

\* a room as save_data writes it: a copy whose answered sets are lists
saved_room(room) ==
    {[room EXCEPT !.answered_correctly = a] : a \in listed(room.answered_correctly)}

\* a save that leaves the users out
save_data_rooms_only(rooms_, users_) ==
    {[rooms |-> r, users |-> <<>>] :
        r \in {r \in [DOMAIN rooms_ -> UNION {saved_room(rooms_[c]) : c \in DOMAIN rooms_}] :
                 \A c \in DOMAIN rooms_ : r[c] \in saved_room(rooms_[c])}}

\* save_data(): the contents the file can get
save_data(rooms_, users_) ==
    {[rooms |-> r, users |-> users_] :
        r \in {r \in [DOMAIN rooms_ -> UNION {saved_room(rooms_[c]) : c \in DOMAIN rooms_}] :
                 \A c \in DOMAIN rooms_ : r[c] \in saved_room(rooms_[c])}}

\* The registries the module loads from the file at start: none when there is no
\* file, else the file's, each answered list made a set again.
load(file_) ==
    IF file_ = <<>>
    THEN [rooms |-> <<>>, users |-> <<>>]
    ELSE [rooms |-> [c \in DOMAIN file_[1].rooms |->
                        [file_[1].rooms[c] EXCEPT !.answered_correctly =
                            [n \in DOMAIN @ |-> Range(@[n])]]],
          users |-> file_[1].users]

(***************************************************************************)
(* Handlers.  Each is the whole handler as a function of the registries,   *)
(* the uuid counter and the request: the registries it leaves, whether it  *)
(* called save_data, and its response.                                     *)
(***************************************************************************)
Min(S) == CHOOSE x \in S : \A y \in S : x <= y

room_leaderboard(room) == leaderboard(room.scores)

\* the questions as join_room returns them
questions_to_return(room) ==
    [i \in 1..Len(room.questions) |->
        [question_id |-> room.questions[i].id, text |-> room.questions[i].text,
         options |-> room.questions[i].options]]

room_status(room) ==
    [started |-> room.started, current_question |-> room.current_question,
     total_questions |-> Len(room.questions), waiting_for_admin |-> ~room.started]

\* ---- join_room ----
\* a capacity check that does not count the admin
room_is_full_counting_joiners(room) == Len(room.players) - 1 >= room.max_players

\* a capacity check that also closes a started room
room_is_full_or_started(room) == Len(room.players) >= room.max_players \/ room.started

\* a capacity check that lets one player too many in
room_is_over_capacity(room) == Len(room.players) > room.max_players

\* a lookup of the user record by name alone
existing_user_id_any_room(users_, username, room_id) ==
    LET found == {uid \in DOMAIN users_ : users_[uid].username = username}
    IN IF found = {} THEN 0 ELSE CHOOSE x \in found : \A y \in found : x <= y

\* a join that puts the new player first
room_with_player_first(room, username) ==
    [room EXCEPT !.players = <<username>> \o @,
                 !.scores = dict_set(@, username, 0),
                 !.answered_correctly = map_set(@, username, {})]

\* `len(room["players"]) >= room["max_players"]`
room_is_full(room) == Len(room.players) >= room.max_players

\* `user.username in room["players"]`
username_in_room(room, username) == username \in Range(room.players)

\* The first user record (in insertion order: ids grow) with that name and room;
\* 0 stands for None.
existing_user_id(users_, username, room_id) ==
    LET found == {uid \in DOMAIN users_ : /\ users_[uid].username = username
                                          /\ users_[uid].current_room = room_id}
    IN IF found = {} THEN 0 ELSE Min(found)

\* a user record that does not name its room
new_user_no_room(user_id, username, room_id, is_admin) ==
    [id |-> user_id, username |-> username, current_room |-> <<>>,
     score |-> 0, is_admin |-> is_admin]

\* a user record that never has the admin flag
new_user_not_admin(user_id, username, room_id, is_admin) ==
    [id |-> user_id, username |-> username, current_room |-> room_id,
     score |-> 0, is_admin |-> FALSE]

new_user(user_id, username, room_id, is_admin) ==
    [id |-> user_id, username |-> username, current_room |-> room_id,
     score |-> 0, is_admin |-> is_admin]

\* the room after a new player is added
room_with_player(room, username) ==
    [room EXCEPT !.players = Append(@, username),
                 !.scores = dict_set(@, username, 0),
                 !.answered_correctly = map_set(@, username, {})]

join_room(rooms_, users_, uuid_, room_id, username) ==
    IF room_id \notin DOMAIN rooms_
    THEN HTTPException(rooms_, users_, uuid_, 404, "Room not found")
    ELSE LET room == rooms_[room_id] IN
    IF room_is_full(room)
    THEN HTTPException(rooms_, users_, uuid_, 400, "Room is full")
    ELSE IF username_in_room(room, username)
    THEN LET uid == existing_user_id(users_, username, room_id) IN
         IF uid # 0
         THEN Returned(rooms_, users_, uuid_, FALSE, "User already in room",
                  [user_id |-> uid,
                   is_admin |-> users_[uid].is_admin, players |-> room.players,
                   questions |-> questions_to_return(room),
                   room_status |-> room_status(room),
                   leaderboard |-> room_leaderboard(room)])
         ELSE HTTPException(rooms_, users_, uuid_, 400, "Username already taken in this room")
    ELSE LET user_id == uuid_ + 1
             joined == room_with_player(room, username)
         IN Returned([rooms_ EXCEPT ![room_id] = joined],
                     map_set(users_, user_id, new_user(user_id, username, room_id, FALSE)),
                     user_id, TRUE, "User joined room",
                     [user_id |-> user_id,
                      is_admin |-> FALSE, players |-> joined.players,
                      questions |-> questions_to_return(joined),
                      room_status |-> room_status(joined),
                      leaderboard |-> room_leaderboard(joined)])

\* ---- start_quiz ----
\* a check that only rejects the id of no user
is_no_user(room, admin_id) == admin_id = 0

\* `room.get("admin_id") != start.admin_id`
is_not_admin(room, admin_id) == room.admin_id # admin_id

\* a start that flips the flag
room_toggled(room) == [room EXCEPT !.started = ~@]

\* `room["started"] = True`
room_started(room) == [room EXCEPT !.started = TRUE]

start_quiz(rooms_, users_, uuid_, room_id, admin_id) ==
    IF room_id \notin DOMAIN rooms_
    THEN HTTPException(rooms_, users_, uuid_, 404, "Room not found")
    ELSE IF is_not_admin(rooms_[room_id], admin_id)
    THEN HTTPException(rooms_, users_, uuid_, 403, "Only the admin can start the quiz")
    ELSE Returned([rooms_ EXCEPT ![room_id] = room_started(@)], users_, uuid_, TRUE,
                  "Quiz started successfully!",
                  [room_id |-> room_id,
                   started |-> TRUE, players_count |-> Len(rooms_[room_id].players)])

\* ---- update_score ----
\* a score update that stops at zero
room_with_points_floored(room, user_name, points) ==
    LET sum == dict_get(room.scores, user_name, 0) + points
    IN [room EXCEPT !.scores = dict_set(@, user_name, IF sum < 0 THEN 0 ELSE sum)]

\* room["scores"][user_name] = room["scores"].get(user_name, 0) + points
room_with_points(room, user_name, points) ==
    [room EXCEPT !.scores = dict_set(@, user_name, dict_get(@, user_name, 0) + points)]

update_score(rooms_, users_, uuid_, room_id, user_id, points) ==
    IF room_id \notin DOMAIN rooms_
    THEN HTTPException(rooms_, users_, uuid_, 404, "Room not found")
    ELSE IF user_id \notin DOMAIN users_
    THEN HTTPException(rooms_, users_, uuid_, 404, "User not found")
    ELSE LET user_name == users_[user_id].username
             room == room_with_points(rooms_[room_id], user_name, points)
         IN Returned([rooms_ EXCEPT ![room_id] = room],
                     [users_ EXCEPT ![user_id].score = @ + points], uuid_, TRUE, "",
                     [username |-> user_name,
                      new_score |-> dict_get(room.scores, user_name, 0),
                      leaderboard |-> room_leaderboard(room)])

\* ---- submit_answer ----
\* a start check that is never taken
quiz_never_blocked(room) == FALSE

\* `if not room["started"]`
quiz_not_started(room) == ~room.started

\* next((q for q in room["questions"] if q["id"] == question_id), None); <<>> is None
find_question(room, question_id) ==
    LET at == {i \in 1..Len(room.questions) : room.questions[i].id = question_id}
    IN IF at = {} THEN <<>> ELSE <<room.questions[Min(at)]>>

\* the room once the user's name has a set in answered_correctly
room_tracking(room, user_name) ==
    IF user_name \in DOMAIN room.answered_correctly THEN room
    ELSE [room EXCEPT !.answered_correctly = map_set(@, user_name, {})]

\* a check that never finds the question answered
already_answered_never(room, user_name, question_id) == FALSE

\* `answer.question_id in room["answered_correctly"][user_name]`
already_answered(room, user_name, question_id) ==
    question_id \in room.answered_correctly[user_name]

\* `answer.answer.lower() == question["correct_answer"].lower()`
is_correct(answer, question) == lower(answer) = lower(question.correct_answer)

\* the room after a correct first answer
room_credited(room, user_name, question_id) ==
    [room EXCEPT !.scores = dict_set(@, user_name, dict_get(@, user_name, 0) + 1),
                 !.answered_correctly[user_name] = @ \cup {question_id}]

submit_answer(rooms_, users_, uuid_, room_id, user_id, question_id, answer) ==
    IF room_id \notin DOMAIN rooms_
    THEN HTTPException(rooms_, users_, uuid_, 404, "Room not found")
    ELSE IF user_id \notin DOMAIN users_
    THEN HTTPException(rooms_, users_, uuid_, 404, "User not found")
    ELSE LET user_name == users_[user_id].username IN
    IF quiz_not_started(rooms_[room_id])
    THEN HTTPException(rooms_, users_, uuid_, 400, "Quiz hasn't started yet. Waiting for admin to start.")
    ELSE LET found == find_question(rooms_[room_id], question_id) IN
    IF found = <<>>
    THEN HTTPException(rooms_, users_, uuid_, 404, "Question not found")
    ELSE LET question == found[1]
             tracked == room_tracking(rooms_[room_id], user_name)
         IN
    IF already_answered(tracked, user_name, question_id)
    THEN IF user_name \notin dict_keys(tracked.scores)
         THEN Unhandled([rooms_ EXCEPT ![room_id] = tracked], users_, uuid_, FALSE)
         ELSE
         Returned([rooms_ EXCEPT ![room_id] = tracked], users_, uuid_, FALSE,
                  "You've already answered this question correctly.",
                  [correct |-> FALSE, already_answered |-> TRUE,
                   current_score |-> dict_get(tracked.scores, user_name, 0),
                   leaderboard |-> room_leaderboard(tracked)])
    ELSE LET correct == is_correct(answer, question)
             room == IF correct THEN room_credited(tracked, user_name, question_id) ELSE tracked
             rooms2 == [rooms_ EXCEPT ![room_id] = room]
             users2 == IF correct THEN [users_ EXCEPT ![user_id].score = @ + 1] ELSE users_
         IN
         \* the response reads room["scores"][user_name]: a KeyError, after the
         \* save, when the name has no score in this room
         IF user_name \notin dict_keys(room.scores)
         THEN Unhandled(rooms2, users2, uuid_, TRUE)
         ELSE Returned(rooms2, users2, uuid_, TRUE, "",
                  [correct |-> correct, already_answered |-> FALSE,
                   correct_answer |-> question.correct_answer,
                   points_earned |-> IF correct THEN 1 ELSE 0,
                   current_score |-> dict_get(room.scores, user_name, 0),
                   leaderboard |-> room_leaderboard(room)])

\* ---- get_room_status ----
get_room_status(rooms_, users_, uuid_, room_id) ==
    IF room_id \notin DOMAIN rooms_
    THEN HTTPException(rooms_, users_, uuid_, 404, "Room not found")
    ELSE LET room == rooms_[room_id] IN
         Returned(rooms_, users_, uuid_, FALSE, "",
                  [name |-> room.name, topic |-> room.topic, players |-> room.players,
                   current_question |-> room.current_question,
                   total_questions |-> Len(room.questions), scores |-> room.scores,
                   started |-> room.started, admin_id |-> room.admin_id,
                   waiting_for_admin |-> ~room.started,
                   leaderboard |-> room_leaderboard(room)])

\* ---- get_leaderboard ----
get_leaderboard(rooms_, users_, uuid_, room_id) ==
    IF room_id \notin DOMAIN rooms_
    THEN HTTPException(rooms_, users_, uuid_, 404, "Room not found")
    ELSE Returned(rooms_, users_, uuid_, FALSE, "",
                  [room_name |-> rooms_[room_id].name,
                   leaderboard |-> room_leaderboard(rooms_[room_id])])

\* whether a submit_answer reported a point earned
earned_point(r) ==
    /\ r.status = 200
    /\ ~r.body.already_answered
    /\ r.body.points_earned = 1

\* ---- create_room ----
\* `any(r["name"] == room.name for r in rooms.values())`
room_name_exists(rooms_, name) == \E c \in DOMAIN rooms_ : rooms_[c].name = name

\* the room record create_room stores
new_room(room_code, request, questions, admin_id) ==
    [id |-> room_code, name |-> request.name, topic |-> request.topic,
     max_players |-> request.max_players, questions |-> questions,
     players |-> <<admin_username_of(room_code)>>, admin_id |-> admin_id,
     current_question |-> 0, scores |-> <<<<admin_username_of(room_code), 0>>>>,
     started |-> FALSE,
     answered_correctly |-> [n \in {admin_username_of(room_code)} |-> {}]]

\* create_room from the return of generate_questions on: generated is the
\* questions and the uuid counter generate_questions leaves.
create_room_finish(rooms_, users_, room_code, request, generated) ==
    LET admin_id == generated.uuid + 1 IN
    IF generated.raised THEN Unhandled(rooms_, users_, generated.uuid, FALSE) ELSE
    Returned(map_set(rooms_, room_code, new_room(room_code, request, generated.questions, admin_id)),
             map_set(users_, admin_id,
                     new_user(admin_id, admin_username_of(room_code), room_code, TRUE)),
             admin_id, TRUE, "Room created successfully. You are the admin.",
             [room_id |-> room_code, admin_id |-> admin_id,
              admin_username |-> admin_username_of(room_code), topic |-> request.topic,
              questions_count |-> Len(generated.questions)])

(***************************************************************************)
(* Inputs the model explores.                                              *)
(***************************************************************************)
Bob == <<"B", "o", "b">>

\* display names of join requests: a plain name, and the name create_room gives
\* the admin of the room with code BAAAA
JoinNames == {Bob, admin_username_of(<<"B", "A", "A", "A", "A">>)}

\* a room code of no room (Z is never drawn by the sampled generator)
UnknownRoom == <<"Z", "Z", "Z", "Z", "Z">>

\* an answer that matches no question's correct answer
WrongAnswer == <<"n", "o">>

\* a valid question of the provider, and ones the validation skips
provider_q1 ==
    [text |-> "Q1", options |-> <<<<"A">>, <<"B">>>>, correct_answer |-> <<"A">>,
     difficulty |-> "medium", explanation |-> "E1"]

provider_q2 ==
    [text |-> "Q2", options |-> <<<<"A">>, <<"B">>>>, correct_answer |-> <<"B">>,
     difficulty |-> "easy", explanation |-> "E2"]

provider_q_no_explanation ==
    [text |-> "Q3", options |-> <<<<"A">>, <<"B">>>>, correct_answer |-> <<"A">>,
     difficulty |-> "medium"]

provider_q_duplicate_options ==
    [text |-> "Q4", options |-> <<<<"A">>, <<"A">>>>, correct_answer |-> <<"A">>,
     difficulty |-> "medium", explanation |-> "E4"]

provider_q_answer_not_an_option ==
    [text |-> "Q5", options |-> <<<<"A">>, <<"B">>>>, correct_answer |-> <<"C">>,
     difficulty |-> "medium", explanation |-> "E5"]

Content(questions) == [kind |-> "ok", body |-> [kind |-> "content", questions |-> questions]]

\* The create-room requests of the session model carry no api key:
\* generate_questions raises before it awaits anything, and create_room is one step.
SessionRequests ==
    {[name |-> "Trivia1", topic |-> "sports", max_players |-> 2, rounds |-> 1, api_key |-> ""],
     [name |-> "Trivia2", topic |-> "sports", max_players |-> 3, rounds |-> 2, api_key |-> ""]}

\* `points: int = 1`: the delta of a request that gives none
default_points == 1

\* the point deltas of update-score requests
Points == {default_points, -1}

\* create-room requests and provider outcomes of the create-room model
CreateRequests ==
    {[name |-> "Trivia1", topic |-> "sports", max_players |-> 2, rounds |-> 1, api_key |-> ""],
     [name |-> "Trivia1", topic |-> "sports", max_players |-> 2, rounds |-> 2, api_key |-> "sk-or"],
     [name |-> "Trivia2", topic |-> "sports", max_players |-> 2, rounds |-> 1, api_key |-> "sk-or"]}

CreateOutcomes ==
    {Content(<<provider_q1, provider_q2, provider_q1>>),
     Content(<<provider_q_no_explanation, provider_q_duplicate_options,
               provider_q_answer_not_an_option, provider_q2>>),
     [kind |-> "ok", body |-> [kind |-> "not_json"]],
     [kind |-> "ok", body |-> [kind |-> "no_choices"]],
     [kind |-> "ok", body |-> [kind |-> "bad_content"]],
     [kind |-> "http_error"], [kind |-> "timeout"], [kind |-> "error"]}

(***************************************************************************)
(* State.                                                                  *)
(***************************************************************************)
VARIABLES
    rooms,    \* the registry rooms: room code -> room record
    users,    \* the registry users: user id -> user record
    file,     \* quiz_data.json: <<>> while it does not exist, else <<its content>>
    uuid,     \* the uuid4() values drawn so far are 1..uuid
    calls,    \* the create-room requests, in order of arrival
    resp,     \* the response of the last request answered
    updates,  \* the update-score requests that changed a score, so far
    credited, \* <<room id, user id, question id>> of the answers that earned a point
    requests  \* the requests received so far

vars == <<rooms, users, file, uuid, calls, resp, updates, credited, requests>>

Init ==
    /\ rooms = <<>>
    /\ users = <<>>
    /\ file = <<>>
    /\ uuid = 0
    /\ calls = <<>>
    /\ resp = [op |-> "none", status |-> 0, detail |-> ""]
    /\ updates = 0
    /\ credited = {}
    /\ requests = 0

\* A request arrives.
Received ==
    /\ requests < MaxRequests
    /\ requests' = requests + 1

\* The registries, the file and the response after a handler ran to its end.
Answer(op, r) ==
    /\ rooms' = r.rooms
    /\ users' = r.users
    /\ uuid' = r.uuid
    /\ file' \in (IF r.saved THEN {<<d>> : d \in save_data(r.rooms, r.users)} ELSE {file})
    /\ resp' = [op |-> op, status |-> r.status, detail |-> r.detail]

\* A call that was answered: its request and code, its status, the posts it made
\* and what each ended with.
Done(request, room_code, r, posts, labels) ==
    [pc |-> "done", request |-> request, room_code |-> room_code, status |-> r.status,
     posts |-> posts, labels |-> labels]

RoomIds == DOMAIN rooms \cup {UnknownRoom}

\* 0 is the id of no user and of no question
UserIds == DOMAIN users \cup {0}

Questions == UNION {Range(rooms[c].questions) : c \in DOMAIN rooms}

QuestionIds == {q.id : q \in Questions} \cup {0}

\* the answers tried on a question: its correct answer as stored and in lower
\* case, and a wrong one
AnswersTo(question_id) ==
    UNION {{q.correct_answer, lower(q.correct_answer)} : q \in {x \in Questions : x.id = question_id}}
        \cup {WrongAnswer}

(***************************************************************************)
(* create_room.  It runs to the name check without suspending; with an api *)
(* key it then awaits the provider (client.post), once or twice, and other *)
(* requests run meanwhile.                                                 *)
(***************************************************************************)
CreateRoomCall(request) ==
    /\ Len(calls) < MaxCreates
    /\ Received
    /\ \E room_code \in allocate_room_code(DOMAIN rooms) :
        IF room_name_exists(rooms, request.name)
        THEN LET r == HTTPException(rooms, users, uuid, 400, "Room name already exists") IN
             /\ Answer("create-room", r)
             /\ calls' = Append(calls, Done(request, room_code, r, 0, <<"name_exists">>))
        ELSE IF api_key_missing(request.api_key)
        THEN LET r == create_room_finish(rooms, users, room_code, request,
                          questions_after("no_api_key", <<>>, request.rounds, uuid)) IN
             /\ Answer("create-room", r)
             /\ calls' = Append(calls, Done(request, room_code, r, 0, <<"no_api_key">>))
        ELSE /\ calls' = Append(calls, [pc |-> "post1", request |-> request,
                                        room_code |-> room_code, posts |-> 1,
                                        labels |-> <<>>])
             /\ UNCHANGED <<rooms, users, file, uuid, resp>>
    /\ UNCHANGED <<updates, credited>>

\* The awaited post of call i ends with outcome.
ProviderResponds(i, outcome) ==
    /\ i \in DOMAIN calls
    /\ calls[i].pc \in {"post1", "post2"}
    /\ IF calls[i].pc = "post1" /\ outcome.kind \in retried_outcomes
       THEN /\ calls' = [calls EXCEPT ![i].pc = "post2", ![i].posts = 2,
                                      ![i].labels = Append(@, outcome_label(outcome))]
            /\ UNCHANGED <<rooms, users, file, uuid, resp>>
       ELSE LET raw == IF outcome_label(outcome) = "content" THEN outcome.body.questions ELSE <<>>
                r == create_room_finish(rooms, users, calls[i].room_code, calls[i].request,
                         questions_after(outcome_label(outcome), raw,
                                         calls[i].request.rounds, uuid)) IN
            /\ Answer("create-room", r)
            /\ calls' = [calls EXCEPT ![i] = Done(calls[i].request, calls[i].room_code, r, calls[i].posts,
                                  Append(calls[i].labels, outcome_label(outcome)))]
    /\ UNCHANGED <<updates, credited, requests>>

(***************************************************************************)
(* The other handlers never suspend: each is one step.                     *)
(***************************************************************************)
JoinRoom ==
    /\ Received
    /\ \E room_id \in RoomIds, username \in JoinNames :
        Answer("join-room", join_room(rooms, users, uuid, room_id, username))
    /\ UNCHANGED <<calls, updates, credited>>

StartQuiz ==
    /\ Received
    /\ \E room_id \in RoomIds, admin_id \in UserIds :
        Answer("start-quiz", start_quiz(rooms, users, uuid, room_id, admin_id))
    /\ UNCHANGED <<calls, updates, credited>>

UpdateScore ==
    /\ Received
    /\ updates < MaxUpdates
    /\ \E room_id \in RoomIds, user_id \in UserIds, points \in Points :
        LET r == update_score(rooms, users, uuid, room_id, user_id, points) IN
        /\ Answer("update-score", r)
        /\ updates' = IF r.status = 200 THEN updates + 1 ELSE updates
    /\ UNCHANGED <<calls, credited>>

SubmitAnswer ==
    /\ Received
    /\ \E room_id \in RoomIds, user_id \in UserIds, question_id \in QuestionIds :
        \E answer \in AnswersTo(question_id) :
            LET r == submit_answer(rooms, users, uuid, room_id, user_id, question_id, answer) IN
            /\ Answer("submit-answer", r)
            /\ credited' = IF earned_point(r)
                           THEN credited \cup {<<room_id, user_id, question_id>>}
                           ELSE credited
    /\ UNCHANGED <<calls, updates>>

GetRoomStatus ==
    /\ Received
    /\ \E room_id \in RoomIds :
        Answer("room-status", get_room_status(rooms, users, uuid, room_id))
    /\ UNCHANGED <<calls, updates, credited>>

GetLeaderboard ==
    /\ Received
    /\ \E room_id \in RoomIds :
        Answer("leaderboard", get_leaderboard(rooms, users, uuid, room_id))
    /\ UNCHANGED <<calls, updates, credited>>

CreateRoom == \E request \in SessionRequests : CreateRoomCall(request)

Next ==
    \/ CreateRoom
    \/ JoinRoom
    \/ StartQuiz
    \/ UpdateScore
    \/ SubmitAnswer
    \/ GetRoomStatus
    \/ GetLeaderboard

\* The session model: rooms are created in one step (no api key), and every
\* other handler runs against them.
Spec == Init /\ [][Next]_vars

(***************************************************************************)
(* The create-room model: create-room requests with and without an api     *)
(* key, suspended at the provider and resumed in any order.                *)
(***************************************************************************)
CreateRoomAwaiting == \E request \in CreateRequests : CreateRoomCall(request)

ProviderOutcome(i) == \E outcome \in CreateOutcomes : ProviderResponds(i, outcome)

Provider == \E i \in 1..MaxCreates : ProviderOutcome(i)

NextCreate ==
    \/ CreateRoomAwaiting
    \/ Provider

\* Every awaited post ends: with a response, or with the exception of its
\* timeout (15 s, then 30 s), and the event loop resumes the handler.
SpecCreate ==
    /\ Init
    /\ [][NextCreate]_vars
    /\ \A i \in 1..MaxCreates : WF_vars(ProviderOutcome(i))

(***************************************************************************)
(* Properties of the session model (Spec).                                 *)
(***************************************************************************)
\* the usernames of all user records, and the names join requests carry
Usernames == {users[u].username : u \in DOMAIN users} \cup JoinNames

\* the user records with that name and room
users_named(username, room_id) ==
    {uid \in DOMAIN users : /\ users[uid].username = username
                            /\ users[uid].current_room = room_id}

\* C1: in every reachable state, for every room, the keys of its score mapping
\* are exactly the names of its player list, and every key of its
\* answered-tracking mapping is a name of its player list.
C1_ScoreKeysArePlayers ==
    \A c \in DOMAIN rooms :
        /\ dict_keys(rooms[c].scores) = Range(rooms[c].players)
        /\ DOMAIN rooms[c].answered_correctly \subseteq Range(rooms[c].players)

\* C2: while no update-score has changed a score, a user who earned the point of a
\* question in a room and submits that question's correct answer there again is
\* answered 200 with already_answered = true, and no score, no answered-set and
\* no user record changes.
C2_SecondCorrectAnswerEarnsNothing ==
    updates = 0 =>
        \A t \in credited :
            \A answer \in AnswersTo(t[3]) \ {WrongAnswer} :
                LET r == submit_answer(rooms, users, uuid, t[1], t[2], t[3], answer) IN
                /\ r.status = 200
                /\ r.body.already_answered
                /\ r.rooms = rooms
                /\ r.users = users

\* C3: for an existing room that is not started and an existing user,
\* submit-answer answers 400 "Quiz hasn't started yet", whatever the question id
\* (of the room, of another room, of no question) and the answer (correct or
\* wrong), and changes and saves nothing.
C3_SubmitBeforeStartFails ==
    \A room_id \in DOMAIN rooms, user_id \in DOMAIN users, question_id \in QuestionIds :
        \A answer \in AnswersTo(question_id) :
            ~rooms[room_id].started =>
                LET r == submit_answer(rooms, users, uuid, room_id, user_id, question_id, answer) IN
                /\ r.status = 400
                /\ r.detail = "Quiz hasn't started yet. Waiting for admin to start."
                /\ r.rooms = rooms
                /\ r.users = users
                /\ ~r.saved

\* C3 happens: a submit-answer was answered "not started", and a room holds a
\* question and is not started.
C3_Witness ==
    /\ resp.op = "submit-answer"
    /\ resp.status = 400
    /\ resp.detail = "Quiz hasn't started yet. Waiting for admin to start."
    /\ \E c \in DOMAIN rooms : ~rooms[c].started /\ Len(rooms[c].questions) > 0

\* C4: for an existing room with as many players as its capacity (or more),
\* join-room answers 400 "Room is full" for every name, a player's name
\* included, and changes and saves nothing.
C4_FullRoomRejectsEveryName ==
    \A room_id \in DOMAIN rooms, username \in Usernames :
        Len(rooms[room_id].players) >= rooms[room_id].max_players =>
            LET r == join_room(rooms, users, uuid, room_id, username) IN
            /\ r.status = 400
            /\ r.detail = "Room is full"
            /\ r.rooms = rooms
            /\ r.users = users
            /\ ~r.saved

\* C4 happens: a join-room was answered "Room is full" and a room is full with
\* a player who joined it.
C4_Witness ==
    /\ resp.op = "join-room"
    /\ resp.detail = "Room is full"
    /\ \E c \in DOMAIN rooms :
        /\ Len(rooms[c].players) = rooms[c].max_players
        /\ Bob \in Range(rooms[c].players)

\* C5: for an existing room below capacity and a name that is not in its player
\* list, join-room succeeds: exactly one user record is new (not admin, score 0,
\* current room that room), the name is appended last to the player list, its
\* score is 0 and its answered-set empty, no other name's score or answered-set
\* changes, and no other room changes.
C5_NewNameJoins ==
    \A room_id \in DOMAIN rooms, username \in Usernames :
        LET room == rooms[room_id] IN
        (Len(room.players) < room.max_players /\ username \notin Range(room.players)) =>
            LET r == join_room(rooms, users, uuid, room_id, username)
                joined == r.rooms[room_id]
                added == DOMAIN r.users \ DOMAIN users
            IN
            /\ r.status = 200
            /\ Cardinality(added) = 1
            /\ \A uid \in DOMAIN users : r.users[uid] = users[uid]
            /\ \A uid \in added :
                /\ r.body.user_id = uid
                /\ r.users[uid] = [id |-> uid, username |-> username, current_room |-> room_id,
                                   score |-> 0, is_admin |-> FALSE]
            /\ joined.players = Append(room.players, username)
            /\ Len(joined.players) = Len(room.players) + 1
            /\ dict_get(joined.scores, username, -1) = 0
            /\ username \in DOMAIN joined.answered_correctly
            /\ joined.answered_correctly[username] = {}
            /\ \A n \in dict_keys(room.scores) \ {username} :
                dict_get(joined.scores, n, -1) = dict_get(room.scores, n, -1)
            /\ dict_keys(joined.scores) = dict_keys(room.scores) \cup {username}
            /\ \A n \in DOMAIN room.answered_correctly \ {username} :
                joined.answered_correctly[n] = room.answered_correctly[n]
            /\ joined.started = room.started
            /\ DOMAIN r.rooms = DOMAIN rooms
            /\ \A c \in DOMAIN rooms \ {room_id} : r.rooms[c] = rooms[c]

\* C5 happens: a join-room was answered "joined", and a room has the joined
\* player last in its list, after its admin.
C5_Witness ==
    /\ resp.op = "join-room"
    /\ resp.status = 200
    /\ resp.detail = "User joined room"
    /\ \E c \in DOMAIN rooms :
        /\ Len(rooms[c].players) = 2
        /\ rooms[c].players[2] \in JoinNames

\* C6: for an existing room below capacity and a name of its player list that
\* has a user record with that name and room, join-room returns the id of such
\* a record, creates no user, changes and saves nothing, and the same call made
\* again returns the same id.
C6_RejoinIsIdempotent ==
    \A room_id \in DOMAIN rooms, username \in Usernames :
        LET room == rooms[room_id] IN
        (/\ Len(room.players) < room.max_players
         /\ username \in Range(room.players)
         /\ users_named(username, room_id) # {}) =>
            LET r == join_room(rooms, users, uuid, room_id, username)
                again == join_room(r.rooms, r.users, r.uuid, room_id, username)
            IN
            /\ r.status = 200
            /\ r.body.user_id \in users_named(username, room_id)
            /\ r.users = users
            /\ r.rooms = rooms
            /\ r.uuid = uuid
            /\ ~r.saved
            /\ r.body.players = room.players
            /\ again.status = 200
            /\ again.body.user_id = r.body.user_id

\* C6 happens: a join-room was answered "already in room" while users of the
\* same name exist in two rooms.
C6_Witness ==
    /\ resp.op = "join-room"
    /\ resp.status = 200
    /\ resp.detail = "User already in room"
    /\ \E u1, u2 \in DOMAIN users :
        /\ users[u1].username = users[u2].username
        /\ users[u1].current_room # users[u2].current_room

\* C7: start-quiz on an existing room succeeds and sets started exactly when the
\* id given is the room's admin id; with any other id (a player's of the room,
\* another room's admin's, no user's) it answers 403 and changes nothing; on an
\* unknown room it answers 404.
C7_OnlyAdminStarts ==
    \A admin_id \in UserIds :
        /\ \A room_id \in DOMAIN rooms :
            LET r == start_quiz(rooms, users, uuid, room_id, admin_id) IN
            IF admin_id = rooms[room_id].admin_id
            THEN /\ r.status = 200
                 /\ r.rooms = [rooms EXCEPT ![room_id].started = TRUE]
                 /\ r.users = users
            ELSE /\ r.status = 403
                 /\ r.detail = "Only the admin can start the quiz"
                 /\ r.rooms = rooms
                 /\ r.users = users
                 /\ ~r.saved
        /\ LET r == start_quiz(rooms, users, uuid, UnknownRoom, admin_id) IN
            /\ r.status = 404
            /\ r.detail = "Room not found"
            /\ r.rooms = rooms
            /\ r.users = users

\* C7 happens: a start-quiz was answered 403 while a room that is not started
\* has a player who is not its admin; another room was started.
C7_Witness ==
    /\ resp.op = "start-quiz"
    /\ resp.status = 403
    /\ \E c \in DOMAIN rooms, uid \in DOMAIN users :
        /\ ~rooms[c].started
        /\ users[uid].current_room = c
        /\ ~users[uid].is_admin
    /\ \E c \in DOMAIN rooms : rooms[c].started

(***************************************************************************)
(* Properties of the create-room model (SpecCreate).                       *)
(***************************************************************************)
\* C8: in every reachable state no two rooms of the registry have the same name,
\* whatever the interleaving of the create-room requests.
C8_RoomNamesAreUnique ==
    \A c1, c2 \in DOMAIN rooms : rooms[c1].name = rooms[c2].name => c1 = c2

\* C9: a room of the registry is never replaced (create-room inserts under a code
\* no room has at that moment), and every room's code has 5 characters, none of
\* them O, 0, I or 1.
C9_CodesNeverOverwrite ==
    /\ [](\A c \in DOMAIN rooms : Len(c) = 5 /\ Range(c) \cap {"O", "0", "I", "1"} = {})
    /\ [][\A c \in DOMAIN rooms : c \in DOMAIN rooms' /\ rooms'[c] = rooms[c]]_vars

\* call i was answered in this step
completes(i) ==
    /\ i \in DOMAIN calls'
    /\ calls'[i].pc = "done"
    /\ (i \in DOMAIN calls => calls[i].pc # "done")

\* the fallback questions as a room stores count of them, ids apart
fallback_of(count) ==
    [i \in 1..(IF count < Len(fallback_questions) THEN count ELSE Len(fallback_questions)) |->
        fallback_questions[i]]

without_id(q) == [k \in DOMAIN q \ {"id"} |-> q[k]]

without_ids(questions) == [i \in 1..Len(questions) |-> without_id(questions[i])]

\* C10: a create-room request whose name no room has, once it awaits the provider,
\* is eventually answered 200; and every such request, when it is answered, is
\* answered 200 with its room in the registry under its name, holding the
\* fallback questions whenever the provider failed (no key, timeout once or
\* twice, HTTP error, other error, a body that does not parse).
C10_CreateRoomCompletes ==
    /\ \A i \in 1..MaxCreates :
        (i \in DOMAIN calls /\ calls[i].pc # "done")
            ~> (i \in DOMAIN calls /\ calls[i].pc = "done" /\ calls[i].status = 200)
    /\ [][\A i \in 1..MaxCreates :
            (completes(i) /\ calls'[i].labels # <<"name_exists">>) =>
                LET call == calls'[i] IN
                /\ call.status = 200
                /\ resp'.status = 200
                /\ call.room_code \in DOMAIN rooms'
                /\ rooms'[call.room_code].name = call.request.name
                /\ Len(rooms'[call.room_code].questions) > 0
                /\ call.labels[Len(call.labels)] # "content" =>
                    without_ids(rooms'[call.room_code].questions)
                        = without_ids(with_ids(fallback_of(call.request.rounds), 0))
         ]_vars

\* C10 happens: a request whose two posts timed out was answered 200, another
\* after an HTTP error, and a room holds fallback questions.
C10_Witness ==
    /\ \E i \in DOMAIN calls :
        /\ calls[i].pc = "done"
        /\ calls[i].status = 200
        /\ calls[i].labels = <<"timeout", "timeout">>
    /\ \E i \in DOMAIN calls :
        /\ calls[i].pc = "done"
        /\ calls[i].status = 200
        /\ calls[i].labels = <<"http_error">>
    /\ \E c \in DOMAIN rooms :
        without_ids(rooms[c].questions) = without_ids(with_ids(fallback_of(2), 0))

(***************************************************************************)
(* Leaderboards.                                                           *)
(***************************************************************************)
\* lb has one entry per key of scores, with that key's score, and its scores
\* do not increase from one entry to the next
is_leaderboard_of(lb, scores) ==
    /\ Len(lb) = Len(scores)
    /\ \A k \in dict_keys(scores) :
        /\ Cardinality({i \in 1..Len(lb) : lb[i][1] = k}) = 1
        /\ \A i \in 1..Len(lb) : lb[i][1] = k => lb[i][2] = dict_get(scores, k, 0)
    /\ \A i \in 1..(Len(lb) - 1) : lb[i][2] >= lb[i + 1][2]

\* the 200 responses that carry a leaderboard of room room_id, each with the
\* registries its handler leaves
leaderboard_responses(room_id) ==
    {r \in
        {get_leaderboard(rooms, users, uuid, room_id),
         get_room_status(rooms, users, uuid, room_id)}
        \cup {join_room(rooms, users, uuid, room_id, n) : n \in Usernames}
        \cup {update_score(rooms, users, uuid, room_id, u, p) : u \in DOMAIN users, p \in Points}
        \cup UNION {{submit_answer(rooms, users, uuid, room_id, u, q, a) : a \in AnswersTo(q)} :
                        u \in DOMAIN users, q \in QuestionIds}
     : r.status = 200}

\* C11: for every room, the leaderboard that leaderboard, room-status, join-room,
\* submit-answer and update-score return has exactly one entry per key of the
\* room's score mapping (as the handler leaves it), with that key's score, and
\* the scores of consecutive entries do not increase.
C11_LeaderboardIsSortedScores ==
    \A room_id \in DOMAIN rooms :
        \A r \in leaderboard_responses(room_id) :
            is_leaderboard_of(r.body.leaderboard, r.rooms[room_id].scores)

\* C11 happens: a leaderboard request was answered while a room's score mapping
\* lists a lower score before a higher one.
C11_Witness ==
    /\ resp.op = "leaderboard"
    /\ resp.status = 200
    /\ \E c \in DOMAIN rooms :
        /\ Len(rooms[c].scores) >= 2
        /\ rooms[c].scores[1][2] < rooms[c].scores[2][2]

(***************************************************************************)
(* Scores.                                                                 *)
(***************************************************************************)
\* C12: in every reachable state, every user's cumulative score is the score
\* recorded under the user's display name in the score mapping of the user's
\* current room, whatever user ids and room codes update-score and
\* submit-answer were given.
C12_UserScoreMirrorsRoomScore ==
    \A uid \in DOMAIN users :
        LET user == users[uid] IN
        /\ user.current_room \in DOMAIN rooms
        /\ user.username \in dict_keys(rooms[user.current_room].scores)
        /\ user.score = dict_get(rooms[user.current_room].scores, user.username, 0)

\* a room but for its score mapping
without_scores(room) == [k \in DOMAIN room \ {"scores"} |-> room[k]]

\* C13: update-score with an existing room and an existing user (of that room or
\* not, started or not) adds the delta, negative ones too, to the room's score
\* of the user's display name (0 when it has none) and to the user's cumulative
\* score; no other name's score, no answered-set, player list or started flag,
\* no other room and no other user changes.  With an unknown room or an unknown
\* user it answers 404 and changes nothing.
C13_UpdateScoreAddsDelta ==
    \A points \in Points :
        /\ \A room_id \in DOMAIN rooms, user_id \in DOMAIN users :
            LET r == update_score(rooms, users, uuid, room_id, user_id, points)
                name == users[user_id].username
                room == rooms[room_id]
                after == r.rooms[room_id]
            IN
            /\ r.status = 200
            /\ dict_get(after.scores, name, 0) = dict_get(room.scores, name, 0) + points
            /\ r.body.new_score = dict_get(room.scores, name, 0) + points
            /\ dict_keys(after.scores) = dict_keys(room.scores) \cup {name}
            /\ \A n \in dict_keys(room.scores) \ {name} :
                dict_get(after.scores, n, 0) = dict_get(room.scores, n, 0)
            /\ without_scores(after) = without_scores(room)
            /\ DOMAIN r.rooms = DOMAIN rooms
            /\ \A c \in DOMAIN rooms \ {room_id} : r.rooms[c] = rooms[c]
            /\ r.users = [users EXCEPT ![user_id].score = users[user_id].score + points]
        /\ \A user_id \in UserIds :
            LET r == update_score(rooms, users, uuid, UnknownRoom, user_id, points) IN
            /\ r.status = 404
            /\ r.rooms = rooms
            /\ r.users = users
            /\ ~r.saved
        /\ \A room_id \in DOMAIN rooms :
            LET r == update_score(rooms, users, uuid, room_id, 0, points) IN
            /\ r.status = 404
            /\ r.rooms = rooms
            /\ r.users = users
            /\ ~r.saved

\* C13 happens: an update-score was answered 200 and left a negative score in a
\* room and in a user record.
C13_Witness ==
    /\ resp.op = "update-score"
    /\ resp.status = 200
    /\ \E c \in DOMAIN rooms : \E i \in 1..Len(rooms[c].scores) : rooms[c].scores[i][2] < 0
    /\ \E uid \in DOMAIN users : users[uid].score < 0

(***************************************************************************)
(* create-room, start-quiz.                                                *)
(***************************************************************************)
\* what generate_questions can return to a create_room of that round count: after
\* each outcome of its last post, and with no api key
generated_for(rounds) ==
    {questions_after(outcome_label(o),
                     IF outcome_label(o) = "content" THEN o.body.questions ELSE <<>>,
                     rounds, uuid) : o \in CreateOutcomes \cup {[kind |-> "no_api_key"]}}

\* C14: right after a successful create-room the new room has the admin's display
\* name as its only player, a score mapping of exactly that name with 0,
\* started false, current question 0 and an answered-tracking mapping of exactly
\* that name with the empty set; its admin id is the id of a user record that
\* did not exist before, with the admin flag, score 0 and the new room's code as
\* current room; the response carries that room code and admin id.
C14_NewRoomHasOnlyItsAdmin ==
    \A request \in SessionRequests \cup CreateRequests :
        \A room_code \in allocate_room_code(DOMAIN rooms) :
            \A generated \in generated_for(request.rounds) :
                LET r == create_room_finish(rooms, users, room_code, request, generated) IN
                /\ r.status = 200
                /\ room_code \in DOMAIN r.rooms
                /\ LET room == r.rooms[room_code]
                       admin_id == room.admin_id
                   IN
                   /\ admin_id \notin DOMAIN users
                   /\ DOMAIN r.users = DOMAIN users \cup {admin_id}
                   /\ \A uid \in DOMAIN users : r.users[uid] = users[uid]
                   /\ r.users[admin_id].id = admin_id
                   /\ r.users[admin_id].is_admin
                   /\ r.users[admin_id].score = 0
                   /\ r.users[admin_id].current_room = room_code
                   /\ room.id = room_code
                   /\ room.name = request.name
                   /\ room.players = <<r.users[admin_id].username>>
                   /\ room.scores = <<<<r.users[admin_id].username, 0>>>>
                   /\ room.started = FALSE
                   /\ room.current_question = 0
                   /\ DOMAIN room.answered_correctly = {r.users[admin_id].username}
                   /\ room.answered_correctly[r.users[admin_id].username] = {}
                   /\ room.questions = generated.questions
                   /\ r.body.room_id = room_code
                   /\ r.body.admin_id = admin_id
                   /\ r.body.admin_username = r.users[admin_id].username
                /\ \A c \in DOMAIN rooms : r.rooms[c] = rooms[c]

\* C14 happens: a second create-room was answered 200 and its room is as it was
\* created, next to a room that has changed since.
C14_Witness ==
    /\ resp.op = "create-room"
    /\ resp.status = 200
    /\ Len(calls) = 2
    /\ calls[2].status = 200
    /\ Len(rooms[calls[2].room_code].players) = 1
    /\ rooms[calls[1].room_code].started

\* C15: a room that is started is started in every later state, whatever the
\* requests; and start-quiz with the admin id on a started room answers 200 and
\* leaves the rooms and the users as they are.
C15_StartedStaysStarted ==
    /\ [][\A c \in DOMAIN rooms :
            rooms[c].started => (c \in DOMAIN rooms' /\ rooms'[c].started)]_vars
    /\ [](\A c \in DOMAIN rooms :
            rooms[c].started =>
                LET r == start_quiz(rooms, users, uuid, c, rooms[c].admin_id) IN
                /\ r.status = 200
                /\ r.rooms = rooms
                /\ r.users = users)

\* C15 happens: the only room was started, an answer earned a point in it, and
\* a start-quiz after that was answered 200.
C15_Witness ==
    /\ resp.op = "start-quiz"
    /\ resp.status = 200
    /\ Cardinality(DOMAIN rooms) = 1
    /\ credited # {}
    /\ \A c \in DOMAIN rooms : rooms[c].started

\* entries of lb with the same score are in the order in which their names are
\* in the score mapping
ties_in_insertion_order(lb, scores) ==
    \A i, j \in 1..Len(lb) :
        (i < j /\ lb[i][2] = lb[j][2]) =>
            dict_index(scores, lb[i][1]) < dict_index(scores, lb[j][1])

\* C16: in every leaderboard a handler returns, entries of equal score are in the
\* order in which their names were first put in the room's score mapping (the
\* admin, then the others as they came); a mapping admin 0, Bob 0 gives that
\* order, and admin 0, Bob 1 gives Bob, then the admin.
C16_TiesKeepInsertionOrder ==
    \A room_id \in DOMAIN rooms :
        /\ \A r \in leaderboard_responses(room_id) :
            ties_in_insertion_order(r.body.leaderboard, r.rooms[room_id].scores)
        /\ LET admin == rooms[room_id].players[1]
               lb == get_leaderboard(rooms, users, uuid, room_id).body.leaderboard
           IN
           /\ rooms[room_id].scores = <<<<admin, 0>>, <<Bob, 0>>>>
                => lb = <<<<admin, 0>>, <<Bob, 0>>>>
           /\ rooms[room_id].scores = <<<<admin, 0>>, <<Bob, 1>>>>
                => lb = <<<<Bob, 1>>, <<admin, 0>>>>

\* C16 happens: after a correct answer a room's score mapping is admin 0, Bob 1
\* and a third name 0: two names tie behind Bob.
C16_Witness ==
    /\ resp.op = "submit-answer"
    /\ resp.status = 200
    /\ \E c \in DOMAIN rooms :
        /\ Len(rooms[c].scores) = 3
        /\ rooms[c].scores[1][2] = 0
        /\ rooms[c].scores[2] = <<Bob, 1>>
        /\ rooms[c].scores[3][2] = 0
        /\ room_leaderboard(rooms[c]) = <<rooms[c].scores[2], rooms[c].scores[1], rooms[c].scores[3]>>

(***************************************************************************)
(* Provider calls of create-room (SpecCreate).                             *)
(***************************************************************************)
\* what a post to the provider can fail with
provider_failures == {"timeout", "http_error", "error", "not_json", "no_choices", "bad_content"}

\* C17: every create-room request whose first provider call failed, with a
\* timeout, an HTTP error status, another error or a malformed response, made
\* exactly one more call before it was answered; no request makes more than two.
C17_EveryFailureIsRetriedOnce ==
    \A i \in DOMAIN calls :
        /\ calls[i].posts <= 2
        /\ (calls[i].pc = "done" /\ calls[i].labels[1] \in provider_failures)
            => calls[i].posts = 2

\* C17 as the code has it: only a read or connect timeout of the first call is
\* followed by a second call; any other failure of the first call, and any
\* failure of the second, ends in the fallback questions with no further call;
\* no request makes more than two calls.
C17_OnlyTimeoutIsRetried ==
    \A i \in DOMAIN calls :
        LET call == calls[i] IN
        /\ call.posts <= 2
        /\ call.pc = "post1" => (call.posts = 1 /\ call.labels = <<>>)
        /\ call.pc = "post2" => (call.posts = 2 /\ call.labels = <<"timeout">>)
        /\ (call.pc = "done" /\ call.posts = 2)
            => (Len(call.labels) = 2 /\ call.labels[1] = "timeout")
        /\ (call.pc = "done" /\ call.posts = 1)
            => (Len(call.labels) = 1 /\ call.labels[1] # "timeout")
        /\ (call.pc = "done" /\ call.labels[Len(call.labels)] \in provider_failures)
            => call.status = 200

\* C17 happens: one request was answered after a timeout and then an HTTP error
\* (two calls), another after an HTTP error on its first call (one call).
C17_Witness ==
    /\ \E i \in DOMAIN calls :
        /\ calls[i].pc = "done"
        /\ calls[i].posts = 2
        /\ calls[i].labels = <<"timeout", "http_error">>
    /\ \E i \in DOMAIN calls :
        /\ calls[i].pc = "done"
        /\ calls[i].posts = 1
        /\ calls[i].labels = <<"http_error">>

(***************************************************************************)
(* The snapshot.                                                           *)
(***************************************************************************)
\* C18: after every request, answered with success or not, the file holds the
\* rooms and the users as they are in memory (no file yet: none of either), each
\* answered-set as a list of the same elements, none twice; in memory the
\* answered-sets stay sets.
C18_SnapshotIsTheRegistries ==
    /\ load(file) = [rooms |-> rooms, users |-> users]
    /\ file # <<>> =>
        /\ DOMAIN file[1].rooms = DOMAIN rooms
        /\ file[1].users = users
        /\ \A c \in DOMAIN rooms :
            /\ DOMAIN file[1].rooms[c].answered_correctly = DOMAIN rooms[c].answered_correctly
            /\ \A n \in DOMAIN rooms[c].answered_correctly :
                /\ Len(file[1].rooms[c].answered_correctly[n])
                     = Cardinality(rooms[c].answered_correctly[n])
                /\ Range(file[1].rooms[c].answered_correctly[n])
                     = rooms[c].answered_correctly[n]
            /\ [file[1].rooms[c] EXCEPT !.answered_correctly = rooms[c].answered_correctly]
                 = rooms[c]

\* C18 happens: a submit-answer wrote a file in which an answered list has two
\* question ids, the later one first.
C18_Witness ==
    /\ resp.op = "submit-answer"
    /\ resp.status = 200
    /\ file # <<>>
    /\ \E c \in DOMAIN file[1].rooms : \E n \in DOMAIN file[1].rooms[c].answered_correctly :
        LET answered == file[1].rooms[c].answered_correctly[n] IN
        /\ Len(answered) = 2
        /\ answered[1] > answered[2]

(***************************************************************************)
(* Wrong answers.                                                          *)
(***************************************************************************)
\* the questions of a room that the name has not answered correctly
unanswered(room, user_name) ==
    {q \in Range(room.questions) :
        user_name \in DOMAIN room.answered_correctly => q.id \notin room.answered_correctly[user_name]}

\* C19: in a started room, for every existing user and every question of the room
\* the user has not answered correctly, a wrong answer is answered 200 with
\* correct = false and 0 points, changes no score of the room and no user
\* record, and leaves the question out of the user's answered-set; the correct
\* answer submitted after it earns exactly one point.
C19_WrongAnswerChangesNothing ==
    \A room_id \in DOMAIN rooms, user_id \in DOMAIN users :
        rooms[room_id].started =>
            \A q \in unanswered(rooms[room_id], users[user_id].username) :
                LET name == users[user_id].username
                    r == submit_answer(rooms, users, uuid, room_id, user_id, q.id, WrongAnswer)
                    then == submit_answer(r.rooms, r.users, r.uuid, room_id, user_id, q.id,
                                          q.correct_answer)
                IN
                /\ r.status = 200
                /\ r.body.correct = FALSE
                /\ r.body.points_earned = 0
                /\ r.rooms[room_id].scores = rooms[room_id].scores
                /\ r.users = users
                /\ q.id \notin r.rooms[room_id].answered_correctly[name]
                /\ then.status = 200
                /\ then.body.correct = TRUE
                /\ then.body.points_earned = 1
                /\ dict_get(then.rooms[room_id].scores, name, 0)
                     = dict_get(rooms[room_id].scores, name, 0) + 1

(***************************************************************************)
(* Players and user records.                                               *)
(***************************************************************************)
\* C20: from empty registries on, every name of a room's player list has a user
\* record with that name whose current room is that room; so no join-room is
\* answered "Username already taken in this room", and a join below capacity
\* with a player's name, the admin's too, returns the id of that player's record.
C20_EveryPlayerHasAUserRecord ==
    \A room_id \in DOMAIN rooms :
        /\ \A n \in Range(rooms[room_id].players) : users_named(n, room_id) # {}
        /\ \A n \in Usernames :
            join_room(rooms, users, uuid, room_id, n).detail
                # "Username already taken in this room"
        /\ Len(rooms[room_id].players) < rooms[room_id].max_players =>
            \A n \in Range(rooms[room_id].players) :
                LET r == join_room(rooms, users, uuid, room_id, n) IN
                /\ r.status = 200
                /\ r.detail = "User already in room"
                /\ r.body.user_id \in users_named(n, room_id)

\* C20 happens: a join-room was answered "already in room" while every room has
\* its admin as only player: an admin's name was given.
C20_Witness ==
    /\ resp.op = "join-room"
    /\ resp.status = 200
    /\ resp.detail = "User already in room"
    /\ \A c \in DOMAIN rooms : Len(rooms[c].players) = 1

(***************************************************************************)
(* Capacity, scores of answers, late joins.                                *)
(***************************************************************************)
\* C21: no room ever has more players than its capacity (the rooms are created
\* with capacity 2 or 3), no player list has a name twice, and no player list
\* ever loses a name or changes the order of those it has.
C21_PlayersWithinCapacity ==
    /\ [](\A c \in DOMAIN rooms :
            /\ rooms[c].max_players >= 1
            /\ Len(rooms[c].players) <= rooms[c].max_players
            /\ Cardinality(Range(rooms[c].players)) = Len(rooms[c].players))
    /\ [][\A c \in DOMAIN rooms :
            /\ c \in DOMAIN rooms'
            /\ Len(rooms'[c].players) >= Len(rooms[c].players)
            /\ SubSeq(rooms'[c].players, 1, Len(rooms[c].players)) = rooms[c].players]_vars

\* C21 happens: a join filled a room of capacity 3, and a join-room after that
\* was turned away.
C21_Witness ==
    /\ resp.op = "join-room"
    /\ resp.status = 400
    /\ \E c \in DOMAIN rooms :
        /\ rooms[c].max_players = 3
        /\ Len(rooms[c].players) = 3

\* C22: as long as no update-score has changed a score, for every room and every
\* player of it the room's score of the player is the number of question ids in
\* the player's answered-set, every id of the set is the id of a question of the
\* room, and the score is between 0 and the number of the room's questions.
C22_ScoreCountsAnsweredQuestions ==
    updates = 0 =>
        \A c \in DOMAIN rooms : \A n \in Range(rooms[c].players) :
            /\ n \in dict_keys(rooms[c].scores)
            /\ n \in DOMAIN rooms[c].answered_correctly
            /\ dict_get(rooms[c].scores, n, 0) = Cardinality(rooms[c].answered_correctly[n])
            /\ rooms[c].answered_correctly[n] \subseteq {q.id : q \in Range(rooms[c].questions)}
            /\ dict_get(rooms[c].scores, n, 0) >= 0
            /\ dict_get(rooms[c].scores, n, 0) <= Len(rooms[c].questions)

\* C22 happens: with no update-score, a player has answered both questions of a
\* room and has score 2.
C22_Witness ==
    /\ updates = 0
    /\ resp.op = "submit-answer"
    /\ resp.status = 200
    /\ \E c \in DOMAIN rooms : \E n \in Range(rooms[c].players) :
        /\ Len(rooms[c].questions) = 2
        /\ Cardinality(rooms[c].answered_correctly[n]) = 2
        /\ dict_get(rooms[c].scores, n, 0) = 2

\* C23: for a started room below capacity, join-room with a name that is not in
\* its player list does exactly what it does for the same room not started (new
\* user record, the name last in the player list with score 0 and an empty
\* answered-set), and the started flag stays; the new user's correct answer to a
\* question of the room, submitted next, earns one point.
C23_StartedRoomAcceptsJoins ==
    \A room_id \in DOMAIN rooms, username \in Usernames :
        LET room == rooms[room_id] IN
        (/\ room.started
         /\ Len(room.players) < room.max_players
         /\ username \notin Range(room.players)) =>
            LET r == join_room(rooms, users, uuid, room_id, username)
                before == join_room([rooms EXCEPT ![room_id].started = FALSE], users, uuid,
                                    room_id, username)
                user_id == r.body.user_id
            IN
            /\ r.status = 200
            /\ r.detail = "User joined room"
            /\ before.status = 200
            /\ r.users = before.users
            /\ r.rooms[room_id] = [before.rooms[room_id] EXCEPT !.started = TRUE]
            /\ user_id \notin DOMAIN users
            /\ r.users[user_id].username = username
            /\ r.users[user_id].score = 0
            /\ r.rooms[room_id].players = Append(room.players, username)
            /\ dict_get(r.rooms[room_id].scores, username, -1) = 0
            /\ r.rooms[room_id].answered_correctly[username] = {}
            /\ \A q \in Range(room.questions) :
                LET a == submit_answer(r.rooms, r.users, r.uuid, room_id, user_id, q.id,
                                       q.correct_answer) IN
                /\ a.status = 200
                /\ a.body.correct = TRUE
                /\ a.body.points_earned = 1
                /\ a.body.current_score = 1
                /\ a.rooms[room_id].answered_correctly[username] = {q.id}

\* C23 happens: in the only room, started, the admin earned a point, and the
\* request after that was a join that added a player.
C23_Witness ==
    /\ resp.op = "join-room"
    /\ resp.status = 200
    /\ resp.detail = "User joined room"
    /\ Cardinality(DOMAIN rooms) = 1
    /\ credited # {}
    /\ \A c \in DOMAIN rooms :
        /\ rooms[c].started
        /\ Len(rooms[c].players) = 2
        /\ dict_get(rooms[c].scores, rooms[c].players[1], 0) = 1
        /\ dict_get(rooms[c].scores, rooms[c].players[2], -1) = 0

====
